---- MODULE Spec2Model ----
(***************************************************************************)
(* A model of vml's image catalog engine (src/images.rs) and of the        *)
(* command dispatcher (src/main.rs).                                        *)
(*                                                                         *)
(*   SpecMerge      update_images over whole catalogs                      *)
(*   SpecField      update_images with every directive combination on one  *)
(*                  local entry                                            *)
(*   SpecPull       concurrent Image::pull calls of one image              *)
(*   SpecOutdate    Image::outdate over file states, clocks and thresholds *)
(*   SpecMain       main's subcommands that act on each resolved VM/image  *)
(*   SpecMainFair   SpecMain with the thread of main running on            *)
(*   SpecList       images::list over directories that share names         *)
(*   SpecInstall    files::install_config("images.toml") over repeated runs *)
(*   SpecSync       update_images_file with every step able to fail        *)
(*   SpecTwice      update_images run again on its own result              *)
(***************************************************************************)
EXTENDS Integers, Sequences, FiniteSets, TLC

(***************************************************************************)
(* Bounds                                                                  *)
(***************************************************************************)
\* image names are 1..MaxName; the BTreeMap's String order is the order of Int
MaxName == 2
\* longest change list of the entry whose directives are enumerated
MaxChange == 3
\* concurrent pull() calls of the same image
NumPulls == 2
\* bytes of a response body; copy_to writes them one at a time
BodyLen == 2
\* distinct contents the image's url may serve
MaxContent == 2
\* largest update-after-days; clocks run to one day past it
MaxDays == 2
\* declared VMs (and image names given to `image pull`), named 1..NumVMs
NumVMs == 3
\* largest commands.start.wait_ssh.repeat
MaxRepeat == 2
\* directories given to list()
MaxDirs == 2
\* file names a directory may hold, 1..MaxFile in lexicographic order
MaxFile == 3
\* runs of vml, each calling install_config once
MaxRuns == 2

\* 60 * 60 * 24 of outdate_option
SecsPerDay == 86400

(***************************************************************************)
(* DeserializeImage and the directive vocabulary                           *)
(***************************************************************************)
Names == 1..MaxName

\* the serde (kebab-case) names of the fields of DeserializeImage
Fields ==
  {"url", "get-url-prog", "description", "change", "update-after-days", "arch-mapping"}

\* None of an Option field
None == 0

\* the versions field values are drawn from; version 0 leaves the Option fields None
Versions == {0, 1}

Keep(f) == "keep-" \o f
Update(f) == "update-" \o f

\* every directive update_images looks for, and one it does not know
DirectiveOrder ==
  << "delete", "update-all",
     "keep-url", "update-url",
     "keep-get-url-prog", "update-get-url-prog",
     "keep-description", "update-description",
     "keep-change", "update-change",
     "keep-update-after-days", "update-update-after-days",
     "keep-arch-mapping", "update-arch-mapping",
     "frobnicate" >>

Range(s) == {s[i] : i \in DOMAIN s}

\* a DeserializeImage whose value fields carry version v and whose change list is ch
DeserializeImage(v, ch) ==
  [ url               |-> 10 + v,
    get_url_prog      |-> IF v = 0 THEN None ELSE 20 + v,
    description       |-> IF v = 0 THEN None ELSE 30 + v,
    change            |-> ch,
    update_after_days |-> IF v = 0 THEN None ELSE 40 + v,
    arch_mapping      |-> IF v = 0 THEN None ELSE 50 + v ]

\* the field of a DeserializeImage by its serde name
Field(img, f) ==
  CASE f = "url"               -> img.url
    [] f = "get-url-prog"      -> img.get_url_prog
    [] f = "description"       -> img.description
    [] f = "change"            -> img.change
    [] f = "update-after-days" -> img.update_after_days
    [] f = "arch-mapping"      -> img.arch_mapping

\* the ascending sequences of indices of DirectiveOrder, at most n long
RECURSIVE IndexLists(_)
IndexLists(n) ==
  IF n = 0 THEN {<<>>}
  ELSE LET shorter == IndexLists(n - 1)
       IN  shorter \cup
           { Append(s, i) : s \in {t \in shorter : Len(t) = n - 1},
                            i \in 1..Len(DirectiveOrder) }

Ascending(s) == \A i \in 1..(Len(s) - 1) : s[i] < s[i + 1]

\* change lists of at most n distinct directives
ChangeLists(n) ==
  { [i \in 1..Len(s) |-> DirectiveOrder[s[i]]] : s \in {t \in IndexLists(n) : Ascending(t)} }

\* BTreeMap<String, DeserializeImage>: a function from the names present to entries
Catalogs(entries) ==
  UNION { [D -> entries] : D \in SUBSET Names }

\* btree_map::IntoIter: the entries of a map as <<name, image>> in ascending key order
RECURSIVE IntoIter(_)
IntoIter(map) ==
  IF DOMAIN map = {} THEN <<>>
  ELSE LET k == CHOOSE x \in DOMAIN map : \A y \in DOMAIN map : x <= y
       IN  << <<k, map[k]>> >> \o IntoIter([n \in DOMAIN map \ {k} |-> map[n]])

\* Iterator::next: the Option it yields (a sequence of none or one item)
IterNext(it) == IF it = <<>> THEN <<>> ELSE <<Head(it)>>
\* Iterator::next: the iterator it leaves
IterRest(it) == IF it = <<>> THEN <<>> ELSE Tail(it)

\* BTreeMap::insert
Insert(map, k, v) == [n \in DOMAIN map \cup {k} |-> IF n = k THEN v ELSE map[n]]

EmptyMap == [n \in {} |-> 0]

(***************************************************************************)
(* State                                                                   *)
(***************************************************************************)
VARIABLES
  new_catalog,      \* the embedded catalog update_images is called with
  old_catalog,      \* the local catalog update_images is called with
  embedded_images,  \* update_images: the iterator over the embedded catalog
  config_images,    \* update_images: the iterator over the local catalog
  embedded_image,   \* update_images: Option of the current embedded entry
  config_image,     \* update_images: Option of the current local entry
  images,           \* update_images: the map being built
  merge_pc          \* "call", "loop", "returned"

mergeVars ==
  << new_catalog, old_catalog, embedded_images, config_images,
     embedded_image, config_image, images, merge_pc >>

VARIABLES
  image_file,       \* the file at Image::path()
  tmp,              \* pull: the NamedTempFile of each call, in the images directory
  body,             \* pull: the bytes of the response of each call
  pull_pc,          \* pull: where each call stands
  prior,            \* history: the file at Image::path() before any pull
  last_rename       \* history: the call whose rename came last (0: none yet)

pullVars == << image_file, tmp, body, pull_pc, prior, last_rename >>

VARIABLES
  od_file,          \* outdate: the metadata of the file at Image::path()
  od_now,           \* outdate: what SystemTime::now() returns, in seconds
  od_image_days,    \* outdate: Image::update_after_days, an Option
  od_default_days,  \* outdate: ConfigImages::update_after_days, an Option
  od_pc,            \* outdate: "call", "duration", "threshold", "returned"
  od_result         \* outdate: the Option<bool> of outdate_option, then the bool

outdateVars == << od_file, od_now, od_image_days, od_default_days, od_pc, od_result >>

VARIABLES
  cmd,              \* main: the subcommand
  is_all,           \* VMsCreator: the select-all flag (--all-vms)
  flag_running,     \* the subcommand's `running` flag
  check,            \* ssh: the `check` flag
  rsync_via,        \* rsync-to: "sources", "template" or "none"
  wait_ssh,         \* start: the `wait-ssh` flag
  repeat,           \* start: config.commands.start.wait_ssh.repeat
  running,          \* the VMs with a live process
  selected,         \* VMsCreator: the VMs matching the names, parents and tags given
  with_pid,         \* VMsCreator: the WithPid mode
  error_on_empty,   \* VMsCreator: whether an empty result is an error
  vms,              \* main: the sequence the per-item loop runs over
  acted,            \* history: <<item, outcome>> of every runtime action attempted
  ws_idx,           \* start: vms visited by the wait-ssh loop
  ws_try,           \* start: iterations of `for _ in 0..repeat` done for the vm
  attempts,         \* history: ssh reachability attempts made on each VM
  sleeps,           \* history: thread::sleep calls of the wait-ssh loop
  reached,          \* history: the VMs whose reachability attempt exited with 0
  main_pc           \* "main", "specified", "create", "loop", "wait", "ok", "err"

mainVars ==
  << cmd, is_all, flag_running, check, rsync_via, wait_ssh, repeat, running, selected,
     with_pid, error_on_empty, vms, acted, ws_idx, ws_try, attempts, sleeps,
     reached, main_pc >>

VARIABLES
  ls_dirs,          \* list: images_dirs, each directory as the set of its entries
  ls_dir,           \* list: directories the outer loop has opened
  ls_entries,       \* list: entries fs::read_dir has yet to yield
  ls_images,        \* list: the BTreeSet, as its elements in order
  ls_pc             \* list: "dirs", "entries", "ok", "err"

listVars == << ls_dirs, ls_dir, ls_entries, ls_images, ls_pc >>

VARIABLES
  config,           \* install_config: the file <config dir>/images.toml
  etc_config,       \* install_config: the file /etc/vml/images.toml
  install_prior,    \* history: config as the running call found it
  install_runs,     \* install_config calls made so far
  install_pc        \* install_config: "dir", "exists", "copy", "write", "ok", "err"

installVars == << config, etc_config, install_prior, install_runs, install_pc >>

VARIABLES
  images_file,      \* update_images_file: the file at images_file_path()
  images_string,    \* update_images_file: the serialized merge
  sync_prior,       \* history: images_file as the running call found it
  sync_written,     \* bytes the running write_all has written
  sync_runs,        \* update_images_file calls made so far
  sync_pc           \* "read", "parse", "open", "header", "write_header",
                    \* "write_images", "ok", "err"

syncVars == << images_file, images_string, sync_prior, sync_written, sync_runs, sync_pc >>

VARIABLES
  upgrades,         \* update_images calls made on the catalog so far
  first_old,        \* history: the local catalog before the first upgrade
  first_images      \* history: what the first upgrade returned

twiceVars == << upgrades, first_old, first_images >>

vars == << mergeVars, pullVars, outdateVars, mainVars, listVars, installVars, syncVars, twiceVars >>

\* what the steps of one operation leave alone
notMerge == << pullVars, outdateVars, mainVars, listVars, installVars, syncVars, twiceVars >>
notPull == << mergeVars, outdateVars, mainVars, listVars, installVars, syncVars, twiceVars >>
notOutdate == << mergeVars, pullVars, mainVars, listVars, installVars, syncVars, twiceVars >>
notMain == << mergeVars, pullVars, outdateVars, listVars, installVars, syncVars, twiceVars >>
notList == << mergeVars, pullVars, outdateVars, mainVars, installVars, syncVars, twiceVars >>
notInstall == << mergeVars, pullVars, outdateVars, mainVars, listVars, syncVars, twiceVars >>
notSync == << mergeVars, pullVars, outdateVars, mainVars, listVars, installVars, twiceVars >>
notTwice == << mergeVars, pullVars, outdateVars, mainVars, listVars, installVars, syncVars >>

VMs == 1..NumVMs

Pulls == 1..NumPulls

\* a file: whether the path exists, and its bytes
Absent == [exists |-> FALSE, bytes |-> <<>>]
File(bytes) == [exists |-> TRUE, bytes |-> bytes]

\* no list() is running
ListIdle ==
  /\ ls_dirs = <<>>
  /\ ls_dir = 0
  /\ ls_entries = {}
  /\ ls_images = <<>>
  /\ ls_pc = "dirs"

\* install_config is not called
InstallIdle ==
  /\ config = Absent
  /\ etc_config = Absent
  /\ install_prior = Absent
  /\ install_runs = 0
  /\ install_pc = "dir"

\* update_images_file is not called
SyncIdle ==
  /\ images_file = Absent
  /\ images_string = <<>>
  /\ sync_prior = Absent
  /\ sync_written = 0
  /\ sync_runs = 0
  /\ sync_pc = "read"

\* the catalog is upgraded once
TwiceIdle ==
  /\ upgrades = 1
  /\ first_old = <<>>
  /\ first_images = <<>>

\* the locals of update_images before the call
MergeIdle ==
  /\ embedded_images = <<>>
  /\ config_images = <<>>
  /\ embedded_image = <<>>
  /\ config_image = <<>>
  /\ images = EmptyMap
  /\ merge_pc = "call"

\* no outdate() is running
OutdateIdle ==
  /\ od_file = [exists |-> FALSE, modified |-> <<>>]
  /\ od_now = 0
  /\ od_image_days = <<>>
  /\ od_default_days = <<>>
  /\ od_pc = "call"
  /\ od_result = <<>>

\* main has not been entered
MainIdle ==
  /\ cmd = "none"
  /\ is_all = FALSE
  /\ flag_running = FALSE
  /\ check = FALSE
  /\ rsync_via = "sources"
  /\ wait_ssh = FALSE
  /\ repeat = 0
  /\ running = {}
  /\ selected = {}
  /\ with_pid = "Option"
  /\ error_on_empty = FALSE
  /\ vms = <<>>
  /\ acted = <<>>
  /\ ws_idx = 0
  /\ ws_try = 0
  /\ attempts = [v \in VMs |-> 0]
  /\ sleeps = 0
  /\ reached = {}
  /\ main_pc = "main"

\* no pull() is running
PullIdle ==
  /\ image_file = Absent
  /\ tmp = [p \in Pulls |-> Absent]
  /\ body = [p \in Pulls |-> <<>>]
  /\ pull_pc = [p \in Pulls |-> "idle"]
  /\ prior = Absent
  /\ last_rename = 0

(***************************************************************************)
(* update_images                                                           *)
(***************************************************************************)
\* KeepsOld without the test for `update-<field>`
KeepsOldForgetsUpdate(change_set, f) ==
  \/ Keep(f) \in change_set
  \/ "update-all" \notin change_set

\* KeepsOld without the test for `keep-<field>`
KeepsOldForgetsKeep(change_set, f) ==
  "update-all" \notin change_set /\ Update(f) \notin change_set

\* KeepsOld without the default that keeps a field no directive names
KeepsOldOnlyOnKeep(change_set, f) ==
  Keep(f) \in change_set

\* the per-field choice of the Equal arm: TRUE keeps old, FALSE takes new
KeepsOld(change_set, f) ==
  \/ Keep(f) \in change_set
  \/ ("update-all" \notin change_set /\ Update(f) \notin change_set)

\* MergeEntry with the description arm left reading get_url_prog
MergeEntryCopyPaste(old, new) ==
  LET change_set == Range(old.change)
      pick(f, o, n) == IF KeepsOld(change_set, f) THEN o ELSE n
  IN  [ url               |-> pick("url", old.url, new.url),
        get_url_prog      |-> pick("get-url-prog", old.get_url_prog, new.get_url_prog),
        description       |-> pick("description", old.get_url_prog, new.get_url_prog),
        change            |-> pick("change", old.change, new.change),
        update_after_days |-> pick("update-after-days", old.update_after_days,
                                   new.update_after_days),
        arch_mapping      |-> pick("arch-mapping", old.arch_mapping, new.arch_mapping) ]

\* the DeserializeImage the Equal arm builds
MergeEntry(old, new) ==
  LET change_set == Range(old.change)
      pick(f, o, n) == IF KeepsOld(change_set, f) THEN o ELSE n
  IN  [ url               |-> pick("url", old.url, new.url),
        get_url_prog      |-> pick("get-url-prog", old.get_url_prog, new.get_url_prog),
        description       |-> pick("description", old.description, new.description),
        change            |-> pick("change", old.change, new.change),
        update_after_days |-> pick("update-after-days", old.update_after_days,
                                   new.update_after_days),
        arch_mapping      |-> pick("arch-mapping", old.arch_mapping, new.arch_mapping) ]

\* the two first next() calls and the empty result map
UpdateImagesCall ==
  /\ merge_pc = "call"
  /\ embedded_image' = IterNext(IntoIter(new_catalog))
  /\ embedded_images' = IterRest(IntoIter(new_catalog))
  /\ config_image' = IterNext(IntoIter(old_catalog))
  /\ config_images' = IterRest(IntoIter(old_catalog))
  /\ images' = EmptyMap
  /\ merge_pc' = "loop"
  /\ UNCHANGED << new_catalog, old_catalog, notMerge >>

\* the condition of `while let (Some(ei), Some(ci))`
BothSome == embedded_image # <<>> /\ config_image # <<>>

\* Ordering::Greater: the old name comes first
ArmGreater ==
  /\ merge_pc = "loop" /\ BothSome
  /\ LET old_name == config_image[1][1]
         new_name == embedded_image[1][1]
         old == config_image[1][2]
     IN  /\ new_name > old_name
         /\ images' = IF "delete" \notin Range(old.change)
                      THEN Insert(images, old_name, old)
                      ELSE images
  /\ config_image' = IterNext(config_images)
  /\ config_images' = IterRest(config_images)
  /\ UNCHANGED << new_catalog, old_catalog, embedded_image, embedded_images, merge_pc,
                  notMerge >>

\* Ordering::Less: the new name comes first
ArmLess ==
  /\ merge_pc = "loop" /\ BothSome
  /\ LET old_name == config_image[1][1]
         new_name == embedded_image[1][1]
         new == embedded_image[1][2]
     IN  /\ new_name < old_name
         /\ images' = Insert(images, new_name, new)
  /\ embedded_image' = IterNext(embedded_images)
  /\ embedded_images' = IterRest(embedded_images)
  /\ UNCHANGED << new_catalog, old_catalog, config_image, config_images, merge_pc,
                  notMerge >>

\* Ordering::Equal: the name is in both catalogs
ArmEqual ==
  /\ merge_pc = "loop" /\ BothSome
  /\ LET old_name == config_image[1][1]
         new_name == embedded_image[1][1]
         old == config_image[1][2]
         new == embedded_image[1][2]
     IN  /\ new_name = old_name
         /\ images' = Insert(images, old_name, MergeEntry(old, new))
  /\ embedded_image' = IterNext(embedded_images)
  /\ embedded_images' = IterRest(embedded_images)
  /\ config_image' = IterNext(config_images)
  /\ config_images' = IterRest(config_images)
  /\ UNCHANGED << new_catalog, old_catalog, merge_pc, notMerge >>

\* the loop condition fails: `images` is returned
UpdateImagesReturn ==
  /\ merge_pc = "loop" /\ ~BothSome
  /\ merge_pc' = "returned"
  /\ UNCHANGED << new_catalog, old_catalog, embedded_image, embedded_images,
                  config_image, config_images, images, notMerge >>

NextMerge ==
  \/ UpdateImagesCall
  \/ ArmGreater
  \/ ArmLess
  \/ ArmEqual
  \/ UpdateImagesReturn

\* change lists of the whole-catalog runs: local entries
LocalChanges == { <<>>, <<"delete">>, <<"update-all">>, <<"update-change">> }
\* change lists of the whole-catalog runs: embedded entries
EmbeddedChanges == { <<>>, <<"delete">> }

InitMerge ==
  /\ new_catalog \in
       Catalogs({DeserializeImage(v, ch) : v \in Versions, ch \in EmbeddedChanges})
  /\ old_catalog \in
       Catalogs({DeserializeImage(v, ch) : v \in Versions, ch \in LocalChanges})
  /\ MergeIdle
  /\ PullIdle
  /\ OutdateIdle
  /\ MainIdle
  /\ ListIdle
  /\ InstallIdle
  /\ SyncIdle
  /\ TwiceIdle

SpecMerge == InitMerge /\ [][NextMerge]_vars

\* the next upgrade: update_images is called with the same embedded catalog and,
\* as the local catalog, the catalog the last call returned
UpgradeAgain ==
  /\ merge_pc = "returned" /\ upgrades = 1
  /\ upgrades' = 2
  /\ first_images' = images
  /\ old_catalog' = images
  /\ embedded_images' = <<>>
  /\ config_images' = <<>>
  /\ embedded_image' = <<>>
  /\ config_image' = <<>>
  /\ images' = EmptyMap
  /\ merge_pc' = "call"
  /\ UNCHANGED << new_catalog, first_old, pullVars, outdateVars, mainVars, listVars,
                  installVars, syncVars >>

NextTwice ==
  \/ UpdateImagesCall
  \/ ArmGreater
  \/ ArmLess
  \/ ArmEqual
  \/ UpdateImagesReturn
  \/ UpgradeAgain

\* change lists of the repeated upgrade: local entries
TwiceLocalChanges ==
  { <<>>, <<"delete">>, <<"update-change">>, <<"update-all", "keep-url">> }
\* change lists of the repeated upgrade: embedded entries
TwiceEmbeddedChanges == { <<>>, <<"update-url">>, <<"update-change">> }

\* the embedded catalog holds entries of the newer version, the local catalog entries
\* of either version
InitTwice ==
  /\ new_catalog \in Catalogs({DeserializeImage(1, ch) : ch \in TwiceEmbeddedChanges})
  /\ old_catalog \in
       Catalogs({DeserializeImage(v, ch) : v \in Versions, ch \in TwiceLocalChanges})
  /\ upgrades = 1
  /\ first_old = old_catalog
  /\ first_images = <<>>
  /\ MergeIdle
  /\ PullIdle
  /\ OutdateIdle
  /\ MainIdle
  /\ ListIdle
  /\ InstallIdle
  /\ SyncIdle

SpecTwice == InitTwice /\ [][NextTwice]_vars

\* the local catalog is one entry of any name and version with any change list of
\* at most MaxChange directives; the embedded catalog is any catalog of entries
\* without directives
InitField ==
  /\ \E p \in Names, v \in Versions, ch \in ChangeLists(MaxChange) :
       old_catalog = [n \in {p} |-> DeserializeImage(v, ch)]
  /\ new_catalog \in Catalogs({DeserializeImage(v, <<>>) : v \in Versions})
  /\ MergeIdle
  /\ PullIdle
  /\ OutdateIdle
  /\ MainIdle
  /\ ListIdle
  /\ InstallIdle
  /\ SyncIdle
  /\ TwiceIdle

SpecField == InitField /\ [][NextMerge]_vars

(***************************************************************************)
(* Image::pull                                                             *)
(***************************************************************************)
\* the bytes of content c; content 0 is the image pulled before the calls modelled
Bytes(c) == [i \in 1..BodyLen |-> 10 * c + i]

InFlight == {"get", "tempfile", "copy", "rename"}

\* reqwest::blocking::get(url) returns a response
GetOk(p) ==
  /\ pull_pc[p] = "get"
  /\ \E c \in 1..MaxContent : body' = [body EXCEPT ![p] = Bytes(c)]
  /\ pull_pc' = [pull_pc EXCEPT ![p] = "tempfile"]
  /\ UNCHANGED << image_file, tmp, prior, last_rename, notPull >>

\* reqwest::blocking::get(url) fails: Error::DownloadImage
GetErr(p) ==
  /\ pull_pc[p] = "get"
  /\ pull_pc' = [pull_pc EXCEPT ![p] = "err"]
  /\ UNCHANGED << image_file, tmp, body, prior, last_rename, notPull >>

\* tempfile_in(images_dir) creates an empty file of a fresh name
TempfileOk(p) ==
  /\ pull_pc[p] = "tempfile"
  /\ tmp' = [tmp EXCEPT ![p] = File(<<>>)]
  /\ pull_pc' = [pull_pc EXCEPT ![p] = "copy"]
  /\ UNCHANGED << image_file, body, prior, last_rename, notPull >>

\* tempfile_in(images_dir) fails
TempfileErr(p) ==
  /\ pull_pc[p] = "tempfile"
  /\ pull_pc' = [pull_pc EXCEPT ![p] = "err"]
  /\ UNCHANGED << image_file, tmp, body, prior, last_rename, notPull >>

\* CopyChunk with the download written straight to the image path
CopyChunkInPlace(p) ==
  /\ pull_pc[p] = "copy"
  /\ LET n == Len(tmp[p].bytes) + 1
     IN  /\ tmp' = [tmp EXCEPT ![p] = File(Append(tmp[p].bytes, body[p][n]))]
         /\ image_file' = File(SubSeq(body[p], 1, n))
         /\ pull_pc' = [pull_pc EXCEPT ![p] = IF n = BodyLen THEN "rename" ELSE "copy"]
  /\ UNCHANGED << body, prior, last_rename, notPull >>

\* body.copy_to(&mut tmp) writes the next byte; after the last one it returns Ok
CopyChunk(p) ==
  /\ pull_pc[p] = "copy"
  /\ LET n == Len(tmp[p].bytes) + 1
     IN  /\ tmp' = [tmp EXCEPT ![p] = File(Append(tmp[p].bytes, body[p][n]))]
         /\ pull_pc' = [pull_pc EXCEPT ![p] = IF n = BodyLen THEN "rename" ELSE "copy"]
  /\ UNCHANGED << image_file, body, prior, last_rename, notPull >>

\* CopyErr with the temporary file kept (persisted) instead of removed on drop
CopyErrKeepsTemp(p) ==
  /\ pull_pc[p] = "copy"
  /\ pull_pc' = [pull_pc EXCEPT ![p] = "err"]
  /\ UNCHANGED << image_file, tmp, body, prior, last_rename, notPull >>

\* body.copy_to(&mut tmp) fails: Error::DownloadImage; tmp is dropped, which removes
\* the temporary file
CopyErr(p) ==
  /\ pull_pc[p] = "copy"
  /\ tmp' = [tmp EXCEPT ![p] = Absent]
  /\ pull_pc' = [pull_pc EXCEPT ![p] = "err"]
  /\ UNCHANGED << image_file, body, prior, last_rename, notPull >>

\* fs::rename(tmp.path(), &image_path) moves the temporary file over the image;
\* the drop of tmp then finds no file to remove
RenameOk(p) ==
  /\ pull_pc[p] = "rename"
  /\ image_file' = tmp[p]
  /\ tmp' = [tmp EXCEPT ![p] = Absent]
  /\ pull_pc' = [pull_pc EXCEPT ![p] = "ok"]
  /\ last_rename' = p
  /\ UNCHANGED << body, prior, notPull >>

\* fs::rename fails; tmp is dropped, which removes the temporary file
RenameErr(p) ==
  /\ pull_pc[p] = "rename"
  /\ tmp' = [tmp EXCEPT ![p] = Absent]
  /\ pull_pc' = [pull_pc EXCEPT ![p] = "err"]
  /\ UNCHANGED << image_file, body, prior, last_rename, notPull >>

\* the process running the call is killed: nothing is dropped
Crash(p) ==
  /\ pull_pc[p] \in InFlight
  /\ pull_pc' = [pull_pc EXCEPT ![p] = "crashed"]
  /\ UNCHANGED << image_file, tmp, body, prior, last_rename, notPull >>

NextPull ==
  \E p \in Pulls :
    \/ GetOk(p)
    \/ GetErr(p)
    \/ TempfileOk(p)
    \/ TempfileErr(p)
    \/ CopyChunk(p)
    \/ CopyErr(p)
    \/ RenameOk(p)
    \/ RenameErr(p)
    \/ Crash(p)

\* every call is at its first statement; the image was pulled before, or never
InitPull ==
  /\ image_file \in {Absent, File(Bytes(0))}
  /\ prior = image_file
  /\ tmp = [p \in Pulls |-> Absent]
  /\ body = [p \in Pulls |-> <<>>]
  /\ pull_pc = [p \in Pulls |-> "get"]
  /\ last_rename = 0
  /\ new_catalog = EmptyMap
  /\ old_catalog = EmptyMap
  /\ MergeIdle
  /\ OutdateIdle
  /\ MainIdle
  /\ ListIdle
  /\ InstallIdle
  /\ SyncIdle
  /\ TwiceIdle

SpecPull == InitPull /\ [][NextPull]_vars

(***************************************************************************)
(* Image::outdate                                                          *)
(***************************************************************************)
\* the instants the clock and the modification time are drawn from: the day
\* boundaries up to MaxDays + 1 days and the seconds next to them
Times ==
  { t \in { d * SecsPerDay + e : d \in 0..(MaxDays + 1), e \in {-1, 0, 1} } : t >= 0 }

\* Option<u64> of a threshold in days
DayOptions == { <<>> } \cup { <<d>> : d \in 0..MaxDays }

\* Option::or with the catalog default tried first
OrDefaultFirst(image_days, default_days) ==
  IF default_days # <<>> THEN default_days ELSE image_days

\* self.update_after_days.or(default_update_after_days)
Or(image_days, default_days) ==
  IF image_days # <<>> THEN image_days ELSE default_days

\* Option::unwrap_or(false) of outdate
UnwrapOrFalse(opt) == IF opt = <<>> THEN FALSE ELSE opt[1]

\* fs::metadata(image_path).and_then(|m| m.modified()).ok()?
OutdateMetadata ==
  /\ od_pc = "call"
  /\ IF od_file.exists /\ od_file.modified # <<>>
     THEN od_pc' = "duration" /\ od_result' = od_result
     ELSE od_pc' = "returned" /\ od_result' = UnwrapOrFalse(<<>>)
  /\ UNCHANGED << od_file, od_now, od_image_days, od_default_days, notOutdate >>

\* sys_time.duration_since(modified_time).ok()?: an Err when the file is newer
\* than the clock
OutdateDuration ==
  /\ od_pc = "duration"
  /\ IF od_file.modified[1] <= od_now
     THEN od_pc' = "threshold" /\ od_result' = od_result
     ELSE od_pc' = "returned" /\ od_result' = UnwrapOrFalse(<<>>)
  /\ UNCHANGED << od_file, od_now, od_image_days, od_default_days, notOutdate >>

\* update_after_days?, the Duration of the threshold and the comparison
OutdateThreshold ==
  /\ od_pc = "threshold"
  /\ LET duration == od_now - od_file.modified[1]
         update_after_days == Or(od_image_days, od_default_days)
     IN  od_result' =
           IF update_after_days = <<>>
           THEN UnwrapOrFalse(<<>>)
           ELSE UnwrapOrFalse(<< duration > update_after_days[1] * SecsPerDay >>)
  /\ od_pc' = "returned"
  /\ UNCHANGED << od_file, od_now, od_image_days, od_default_days, notOutdate >>

NextOutdate ==
  \/ OutdateMetadata
  \/ OutdateDuration
  \/ OutdateThreshold

InitOutdate ==
  /\ od_file \in
       { [exists |-> FALSE, modified |-> <<>>], [exists |-> TRUE, modified |-> <<>>] }
       \cup { [exists |-> TRUE, modified |-> <<t>>] : t \in Times }
  /\ od_now \in Times
  /\ od_image_days \in DayOptions
  /\ od_default_days \in DayOptions
  /\ od_pc = "call"
  /\ od_result = <<>>
  /\ new_catalog = EmptyMap
  /\ old_catalog = EmptyMap
  /\ MergeIdle
  /\ PullIdle
  /\ MainIdle
  /\ ListIdle
  /\ InstallIdle
  /\ SyncIdle
  /\ TwiceIdle

SpecOutdate == InitOutdate /\ [][NextOutdate]_vars

(***************************************************************************)
(* main: the subcommands that act on every resolved item                   *)
(***************************************************************************)
WithPid == {"Without", "Filter", "Error", "Option"}

\* the subcommands that resolve VMs through VMsCreator::create
VMCommands == {"start", "stop", "ssh", "rsync-to", "rsync-from", "monitor"}

\* the subcommands that choose the mode by vmc.is_all()
AllOrErrorCommands == {"ssh", "rsync-to", "rsync-from", "monitor"}

\* the members of a set of names in name order
RECURSIVE Sorted(_)
Sorted(S) ==
  IF S = {} THEN <<>>
  ELSE LET k == CHOOSE x \in S : \A y \in S : x <= y
       IN  <<k>> \o Sorted(S \ {k})

\* VMsCreator::create, steps 4 to 6 of the resolution: the Running State Mode as
\* the final filter or validation, then the error on an empty result
Create(sel, live, mode, on_empty) ==
  IF mode = "Error" /\ \E v \in sel : v \notin live
  THEN [ok |-> FALSE, vms |-> <<>>]
  ELSE LET kept == IF mode = "Filter" THEN sel \cap live ELSE sel
       IN  IF on_empty /\ kept = {}
           THEN [ok |-> FALSE, vms |-> <<>>]
           ELSE [ok |-> TRUE, vms |-> Sorted(kept)]

\* ModeOf with Filter chosen whether or not every VM was asked for
ModeOfAlwaysFilter(c, all) ==
  CASE c = "start" -> "Without"
    [] c = "stop"  -> "Filter"
    [] c \in AllOrErrorCommands -> "Filter"

\* the mode each subcommand sets right before vmc.create()
ModeOf(c, all) ==
  CASE c = "start" -> "Without"
    [] c = "stop"  -> "Filter"
    [] c \in AllOrErrorCommands -> IF all THEN "Filter" ELSE "Error"

\* VMsCreator::with_pid(mode): a plain setter, the mode set before is forgotten
VMsCreatorWithPid(current, mode) == mode

\* set_specifications: the names, parents and tags go into the builder (they decide
\* `selected`); a `running` flag sets WithPid::Filter
SetSpecifications ==
  /\ main_pc = "main"
  /\ cmd \in VMCommands
  /\ with_pid' = IF flag_running THEN VMsCreatorWithPid(with_pid, "Filter") ELSE with_pid
  /\ main_pc' = "specified"
  /\ UNCHANGED << cmd, is_all, flag_running, check, rsync_via, wait_ssh, repeat, running,
                  selected, error_on_empty, vms, acted, ws_idx, ws_try, attempts, sleeps,
                  reached, notMain >>

\* the subcommand's own vmc.with_pid(...) skipped when `running` has set a mode
SetWithPidUnlessRunning ==
  /\ main_pc = "specified"
  /\ with_pid' = IF flag_running THEN with_pid
                 ELSE VMsCreatorWithPid(with_pid, ModeOf(cmd, is_all))
  /\ error_on_empty' = TRUE
  /\ main_pc' = "create"
  /\ UNCHANGED << cmd, is_all, flag_running, check, rsync_via, wait_ssh, repeat, running,
                  selected, vms, acted, ws_idx, ws_try, attempts, sleeps, reached, notMain >>

\* the subcommand's vmc.with_pid(...) and vmc.error_on_empty()
SetWithPid ==
  /\ main_pc = "specified"
  /\ with_pid' = VMsCreatorWithPid(with_pid, ModeOf(cmd, is_all))
  /\ error_on_empty' = TRUE
  /\ main_pc' = "create"
  /\ UNCHANGED << cmd, is_all, flag_running, check, rsync_via, wait_ssh, repeat, running,
                  selected, vms, acted, ws_idx, ws_try, attempts, sleeps, reached, notMain >>

\* whether the subcommand reaches a `vmc.create()?`: rsync-to does so only with
\* sources or a template
CallsCreate == cmd = "rsync-to" => rsync_via # "none"

\* `vmc.create()?` returns the resolved VMs
CreateOk ==
  /\ main_pc = "create" /\ CallsCreate
  /\ Create(selected, running, with_pid, error_on_empty).ok
  /\ vms' = Create(selected, running, with_pid, error_on_empty).vms
  /\ main_pc' = "loop"
  /\ UNCHANGED << cmd, is_all, flag_running, check, rsync_via, wait_ssh, repeat, running,
                  selected, with_pid, error_on_empty, acted, ws_idx, ws_try, attempts,
                  sleeps, reached, notMain >>

\* `vmc.create()?` fails and `?` returns the error from main
CreateErr ==
  /\ main_pc = "create" /\ CallsCreate
  /\ ~Create(selected, running, with_pid, error_on_empty).ok
  /\ main_pc' = "err"
  /\ UNCHANGED << cmd, is_all, flag_running, check, rsync_via, wait_ssh, repeat, running,
                  selected, with_pid, error_on_empty, vms, acted, ws_idx, ws_try,
                  attempts, sleeps, reached, notMain >>

\* rsync-to with neither sources nor a template: nothing is resolved or done
RsyncToNothing ==
  /\ main_pc = "create" /\ ~CallsCreate
  /\ main_pc' = "ok"
  /\ UNCHANGED << cmd, is_all, flag_running, check, rsync_via, wait_ssh, repeat, running,
                  selected, with_pid, error_on_empty, vms, acted, ws_idx, ws_try,
                  attempts, sleeps, reached, notMain >>

\* the sequences of at most n image names
RECURSIVE ImageArgs(_)
ImageArgs(n) ==
  IF n = 0 THEN {<<>>}
  ELSE LET shorter == ImageArgs(n - 1)
       IN  shorter \cup { Append(a, i) : a \in shorter, i \in VMs }

\* image pull: the IMAGES arguments, in the order given
PullImagesArgs ==
  /\ main_pc = "main"
  /\ cmd = "pull"
  /\ vms' \in ImageArgs(NumVMs) \ {<<>>}
  /\ main_pc' = "loop"
  /\ UNCHANGED << cmd, is_all, flag_running, check, rsync_via, wait_ssh, repeat, running,
                  selected, with_pid, error_on_empty, acted, ws_idx, ws_try, attempts,
                  sleeps, reached, notMain >>

\* the item the loop is at
MoreItems == main_pc = "loop" /\ Len(acted) < Len(vms)
Item == vms[Len(acted) + 1]

loopFrame ==
  << cmd, is_all, flag_running, check, rsync_via, wait_ssh, repeat, running, selected,
     with_pid, error_on_empty, vms, ws_idx, ws_try, attempts, sleeps, reached, notMain >>

\* the item's action returns Ok (for ssh: Ok(Some(0))); the loop goes on
ActOk ==
  /\ MoreItems
  /\ acted' = Append(acted, <<Item, "ok">>)
  /\ main_pc' = "loop"
  /\ UNCHANGED loopFrame

\* ActErr with the error swallowed and the loop going on
ActErrContinues ==
  /\ MoreItems
  /\ acted' = Append(acted, <<Item, "err">>)
  /\ main_pc' = "loop"
  /\ UNCHANGED loopFrame

\* the item's action returns Err and `?` returns it from main
ActErr ==
  /\ MoreItems
  /\ acted' = Append(acted, <<Item, "err">>)
  /\ main_pc' = "err"
  /\ UNCHANGED loopFrame

\* ssh: vm.ssh returns Ok of another status than 0: Error::SSHFailed with `check`,
\* else the loop goes on
ActNonZero ==
  /\ MoreItems
  /\ cmd = "ssh"
  /\ acted' = Append(acted, <<Item, "nonzero">>)
  /\ main_pc' = IF check THEN "err" ELSE "loop"
  /\ UNCHANGED loopFrame

\* the loop is through: start goes on to its wait-ssh loop, the others return Ok
LoopEnd ==
  /\ main_pc = "loop" /\ Len(acted) = Len(vms)
  /\ main_pc' = IF cmd = "start" /\ wait_ssh THEN "wait" ELSE "ok"
  /\ UNCHANGED << cmd, is_all, flag_running, check, rsync_via, wait_ssh, repeat, running,
                  selected, with_pid, error_on_empty, vms, acted, ws_idx, ws_try,
                  attempts, sleeps, reached, notMain >>

waitFrame ==
  << cmd, is_all, flag_running, check, rsync_via, wait_ssh, repeat, running, selected,
     with_pid, error_on_empty, vms, acted, notMain >>

\* the wait-ssh loop is at a vm and has iterations left for it
WaitTrying == main_pc = "wait" /\ ws_idx < Len(vms) /\ ws_try < repeat
WaitVm == vms[ws_idx + 1]

\* WaitSshUp without the break: the next iteration for the same vm
WaitSshUpNoBreak ==
  /\ WaitTrying
  /\ attempts' = [attempts EXCEPT ![WaitVm] = @ + 1]
  /\ reached' = reached \cup {WaitVm}
  /\ ws_try' = ws_try + 1
  /\ UNCHANGED << sleeps, ws_idx, main_pc, waitFrame >>

\* vm.ssh(.., "true") returns Ok(Some(0)): break to the next vm
WaitSshUp ==
  /\ WaitTrying
  /\ attempts' = [attempts EXCEPT ![WaitVm] = @ + 1]
  /\ reached' = reached \cup {WaitVm}
  /\ ws_idx' = ws_idx + 1
  /\ ws_try' = 0
  /\ UNCHANGED << sleeps, main_pc, waitFrame >>

\* vm.ssh(.., "true") returns Ok of something else: thread::sleep, next iteration
WaitSshDown ==
  /\ WaitTrying
  /\ attempts' = [attempts EXCEPT ![WaitVm] = @ + 1]
  /\ sleeps' = sleeps + 1
  /\ ws_try' = ws_try + 1
  /\ UNCHANGED << reached, ws_idx, main_pc, waitFrame >>

\* vm.ssh(.., "true") returns Err and `?` returns it from start
WaitSshErr ==
  /\ WaitTrying
  /\ attempts' = [attempts EXCEPT ![WaitVm] = @ + 1]
  /\ main_pc' = "err"
  /\ UNCHANGED << sleeps, reached, ws_idx, ws_try, waitFrame >>

\* `for _ in 0..repeat` is exhausted: the next vm
WaitGiveUp ==
  /\ main_pc = "wait" /\ ws_idx < Len(vms) /\ ws_try = repeat
  /\ ws_idx' = ws_idx + 1
  /\ ws_try' = 0
  /\ UNCHANGED << attempts, sleeps, reached, main_pc, waitFrame >>

\* the wait-ssh loop is through: start returns Ok
WaitEnd ==
  /\ main_pc = "wait" /\ ws_idx = Len(vms)
  /\ main_pc' = "ok"
  /\ UNCHANGED << attempts, sleeps, reached, ws_idx, ws_try, waitFrame >>

NextMain ==
  \/ SetSpecifications
  \/ SetWithPid
  \/ CreateOk
  \/ CreateErr
  \/ RsyncToNothing
  \/ PullImagesArgs
  \/ ActOk
  \/ ActErr
  \/ ActNonZero
  \/ LoopEnd
  \/ WaitSshUp
  \/ WaitSshDown
  \/ WaitSshErr
  \/ WaitGiveUp
  \/ WaitEnd

\* main has parsed the command line and built the VMsCreator; flags of other
\* subcommands than the one given are left at their defaults
InitMain ==
  /\ cmd \in VMCommands \cup {"pull"}
  /\ is_all \in (IF cmd = "pull" THEN {FALSE} ELSE BOOLEAN)
  /\ flag_running \in (IF cmd = "pull" THEN {FALSE} ELSE BOOLEAN)
  /\ check \in (IF cmd = "ssh" THEN BOOLEAN ELSE {FALSE})
  /\ rsync_via \in (IF cmd = "rsync-to" THEN {"sources", "template", "none"}
                                       ELSE {"sources"})
  /\ wait_ssh \in (IF cmd = "start" THEN BOOLEAN ELSE {FALSE})
  /\ repeat \in (IF cmd = "start" /\ wait_ssh THEN 0..MaxRepeat ELSE {0})
  /\ running \in (IF cmd = "pull" THEN {{}} ELSE SUBSET VMs)
  /\ selected \in (IF cmd = "pull" THEN {{}} ELSE SUBSET VMs)
  /\ with_pid \in (IF cmd = "pull" THEN {"Option"} ELSE WithPid)
  /\ error_on_empty = FALSE
  /\ vms = <<>>
  /\ acted = <<>>
  /\ ws_idx = 0
  /\ ws_try = 0
  /\ attempts = [v \in VMs |-> 0]
  /\ sleeps = 0
  /\ reached = {}
  /\ main_pc = "main"
  /\ new_catalog = EmptyMap
  /\ old_catalog = EmptyMap
  /\ MergeIdle
  /\ PullIdle
  /\ OutdateIdle
  /\ ListIdle
  /\ InstallIdle
  /\ SyncIdle
  /\ TwiceIdle

SpecMain == InitMain /\ [][NextMain]_vars

\* main is one thread that runs on until it returns: a step that can be taken is
\* taken (ssh attempts return within ConnectTimeout, sleeps end)
SpecMainFair == SpecMain /\ WF_vars(NextMain)

(***************************************************************************)
(* images::list                                                            *)
(***************************************************************************)
FileNames == 1..MaxFile

\* the sequences of at most n directories
RECURSIVE DirLists(_)
DirLists(n) ==
  IF n = 0 THEN {<<>>}
  ELSE LET shorter == DirLists(n - 1)
       IN  shorter \cup { Append(l, d) : l \in shorter, d \in SUBSET FileNames }

\* Vec::push in place of the insert: names in the order met, repeats kept
VecPush(set, name) == Append(set, name)

\* BTreeSet::insert: the name goes to its place in the order unless it is there
BTreeSetInsert(set, name) ==
  IF name \in Range(set) THEN set
  ELSE LET below == SelectSeq(set, LAMBDA x : x < name)
           above == SelectSeq(set, LAMBDA x : x > name)
       IN  below \o <<name>> \o above

\* `for dir in images_dirs`: fs::read_dir(dir)? opens the next directory
ListReadDir ==
  /\ ls_pc = "dirs" /\ ls_dir < Len(ls_dirs)
  /\ ls_dir' = ls_dir + 1
  /\ ls_entries' = ls_dirs[ls_dir + 1]
  /\ ls_pc' = "entries"
  /\ UNCHANGED << ls_dirs, ls_images, notList >>

\* fs::read_dir(dir)? fails and `?` returns the error
ListReadDirErr ==
  /\ ls_pc = "dirs" /\ ls_dir < Len(ls_dirs)
  /\ ls_pc' = "err"
  /\ UNCHANGED << ls_dirs, ls_dir, ls_entries, ls_images, notList >>

\* `for path in ..`: the directory yields one more entry, in no particular order,
\* and its name is inserted
ListEntry ==
  /\ ls_pc = "entries"
  /\ \E name \in ls_entries :
       /\ ls_images' = BTreeSetInsert(ls_images, name)
       /\ ls_entries' = ls_entries \ {name}
  /\ UNCHANGED << ls_dirs, ls_dir, ls_pc, notList >>

\* the directory has no more entries
ListDirDone ==
  /\ ls_pc = "entries" /\ ls_entries = {}
  /\ ls_pc' = "dirs"
  /\ UNCHANGED << ls_dirs, ls_dir, ls_entries, ls_images, notList >>

\* Ok(images.into_iter().collect())
ListReturn ==
  /\ ls_pc = "dirs" /\ ls_dir = Len(ls_dirs)
  /\ ls_pc' = "ok"
  /\ UNCHANGED << ls_dirs, ls_dir, ls_entries, ls_images, notList >>

NextList ==
  \/ ListReadDir
  \/ ListReadDirErr
  \/ ListEntry
  \/ ListDirDone
  \/ ListReturn

\* list is called with the primary directory and the read-only ones
InitList ==
  /\ ls_dirs \in DirLists(MaxDirs) \ {<<>>}
  /\ ls_dir = 0
  /\ ls_entries = {}
  /\ ls_images = <<>>
  /\ ls_pc = "dirs"
  /\ new_catalog = EmptyMap
  /\ old_catalog = EmptyMap
  /\ MergeIdle
  /\ PullIdle
  /\ OutdateIdle
  /\ MainIdle
  /\ InstallIdle
  /\ SyncIdle
  /\ TwiceIdle

SpecList == InitList /\ [][NextList]_vars

(***************************************************************************)
(* files::install_config("images.toml")                                    *)
(***************************************************************************)
\* AssetConfigs::get("images.toml"): the embedded default
AssetConfigs == Bytes(0)

\* contents a user or an administrator may have given a file
ConfigFiles == { File(Bytes(c)) : c \in 0..MaxContent } \cup { File(<<>>) }

\* what a failed fs::copy or fs::write of `bytes` may leave at the destination
Partial(bytes) ==
  { Absent } \cup { File(SubSeq(bytes, 1, k)) : k \in 0..(Len(bytes) - 1) }

\* fs::create_dir_all(&directory)? succeeds
InstallDirOk ==
  /\ install_pc = "dir"
  /\ install_pc' = "exists"
  /\ UNCHANGED << config, etc_config, install_prior, install_runs, notInstall >>

\* fs::create_dir_all(&directory)? fails
InstallDirErr ==
  /\ install_pc = "dir"
  /\ install_pc' = "err"
  /\ UNCHANGED << config, etc_config, install_prior, install_runs, notInstall >>

\* config.exists(): nothing to do
InstallExists ==
  /\ install_pc = "exists" /\ config.exists
  /\ install_pc' = "ok"
  /\ UNCHANGED << config, etc_config, install_prior, install_runs, notInstall >>

\* !config.exists(): etc_config.exists() chooses between fs::copy and fs::write
InstallMissing ==
  /\ install_pc = "exists" /\ ~config.exists
  /\ install_pc' = IF etc_config.exists THEN "copy" ELSE "write"
  /\ UNCHANGED << config, etc_config, install_prior, install_runs, notInstall >>

\* fs::copy writing the embedded default whatever /etc/vml holds
InstallCopyEmbedded ==
  /\ install_pc = "copy"
  /\ config' = File(AssetConfigs)
  /\ install_pc' = "ok"
  /\ UNCHANGED << etc_config, install_prior, install_runs, notInstall >>

\* fs::copy(etc_config, config)? succeeds
InstallCopyOk ==
  /\ install_pc = "copy"
  /\ config' = etc_config
  /\ install_pc' = "ok"
  /\ UNCHANGED << etc_config, install_prior, install_runs, notInstall >>

\* fs::copy(etc_config, config)? fails, with none or a part of the bytes copied
InstallCopyErr ==
  /\ install_pc = "copy"
  /\ config' \in Partial(etc_config.bytes)
  /\ install_pc' = "err"
  /\ UNCHANGED << etc_config, install_prior, install_runs, notInstall >>

\* fs::write(&config, content.data)? succeeds
InstallWriteOk ==
  /\ install_pc = "write"
  /\ config' = File(AssetConfigs)
  /\ install_pc' = "ok"
  /\ UNCHANGED << etc_config, install_prior, install_runs, notInstall >>

\* fs::write(&config, content.data)? fails, with none or a part of the bytes written
InstallWriteErr ==
  /\ install_pc = "write"
  /\ config' \in Partial(AssetConfigs)
  /\ install_pc' = "err"
  /\ UNCHANGED << etc_config, install_prior, install_runs, notInstall >>

\* the next run of vml: install_all calls install_config("images.toml") again
InstallAgain ==
  /\ install_pc \in {"ok", "err"} /\ install_runs < MaxRuns
  /\ install_runs' = install_runs + 1
  /\ install_prior' = config
  /\ install_pc' = "dir"
  /\ UNCHANGED << config, etc_config, notInstall >>

NextInstall ==
  \/ InstallDirOk
  \/ InstallDirErr
  \/ InstallExists
  \/ InstallMissing
  \/ InstallCopyOk
  \/ InstallCopyErr
  \/ InstallWriteOk
  \/ InstallWriteErr
  \/ InstallAgain

\* the first modelled run finds any local file or none, and any /etc/vml file or none
InitInstall ==
  /\ config \in ConfigFiles \cup {Absent}
  /\ etc_config \in ConfigFiles \cup {Absent}
  /\ install_prior = config
  /\ install_runs = 1
  /\ install_pc = "dir"
  /\ new_catalog = EmptyMap
  /\ old_catalog = EmptyMap
  /\ MergeIdle
  /\ PullIdle
  /\ OutdateIdle
  /\ MainIdle
  /\ ListIdle
  /\ SyncIdle
  /\ TwiceIdle

SpecInstall == InitInstall /\ [][NextInstall]_vars

(***************************************************************************)
(* update_images_file                                                      *)
(***************************************************************************)
\* files::get_config("images-header"): bytes no catalog body holds
ImagesHeader == Bytes(MaxContent + 1)

\* a text toml::from_str rejects
NotToml == <<0>>

\* texts of the local catalog that parse
CatalogTexts == { Bytes(c) : c \in 0..MaxContent } \cup { <<>> }

syncFrame == << sync_prior, sync_runs, notSync >>

\* fs::read_to_string(&images_file_path) succeeds
SyncReadOk ==
  /\ sync_pc = "read" /\ images_file.exists
  /\ sync_pc' = "parse"
  /\ UNCHANGED << images_file, images_string, sync_written, syncFrame >>

\* fs::read_to_string fails: there is no file, or it cannot be read
SyncReadErr ==
  /\ sync_pc = "read"
  /\ sync_pc' = "err"
  /\ UNCHANGED << images_file, images_string, sync_written, syncFrame >>

\* toml::from_str succeeds; update_images merges and the merge will serialize to
\* some catalog text
SyncParseOk ==
  /\ sync_pc = "parse" /\ images_file.bytes \in CatalogTexts
  /\ images_string' \in { Bytes(c) : c \in 1..MaxContent }
  /\ sync_pc' = "open"
  /\ UNCHANGED << images_file, sync_written, syncFrame >>

\* toml::from_str fails
SyncParseErr ==
  /\ sync_pc = "parse" /\ images_file.bytes \notin CatalogTexts
  /\ sync_pc' = "err"
  /\ UNCHANGED << images_file, images_string, sync_written, syncFrame >>

\* OpenOptions::new().truncate(true).write(true).open(..)? succeeds: the file is empty
SyncOpenOk ==
  /\ sync_pc = "open"
  /\ images_file' = File(<<>>)
  /\ sync_pc' = "header"
  /\ UNCHANGED << images_string, sync_written, syncFrame >>

\* the open fails
SyncOpenErr ==
  /\ sync_pc = "open"
  /\ sync_pc' = "err"
  /\ UNCHANGED << images_file, images_string, sync_written, syncFrame >>

\* files::get_config("images-header")? finds the embedded header
SyncHeaderOk ==
  /\ sync_pc = "header"
  /\ sync_written' = 0
  /\ sync_pc' = "write_header"
  /\ UNCHANGED << images_file, images_string, syncFrame >>

\* files::get_config("images-header")? returns GetWrongEmbeddedFile
SyncHeaderErr ==
  /\ sync_pc = "header"
  /\ sync_pc' = "err"
  /\ UNCHANGED << images_file, images_string, sync_written, syncFrame >>

\* images_file.write_all(&header)? writes the next byte; after the last one the
\* second write_all is next
SyncWriteHeader ==
  /\ sync_pc = "write_header"
  /\ images_file' = File(Append(images_file.bytes, ImagesHeader[sync_written + 1]))
  /\ sync_written' = IF sync_written + 1 = Len(ImagesHeader) THEN 0 ELSE sync_written + 1
  /\ sync_pc' = IF sync_written + 1 = Len(ImagesHeader) THEN "write_images"
                                                        ELSE "write_header"
  /\ UNCHANGED << images_string, syncFrame >>

\* images_file.write_all(&header)? fails
SyncWriteHeaderErr ==
  /\ sync_pc = "write_header"
  /\ sync_pc' = "err"
  /\ UNCHANGED << images_file, images_string, sync_written, syncFrame >>

\* images_file.write_all(images_string.as_bytes())? writes the next byte; after the
\* last one Ok(()) is returned
SyncWriteImages ==
  /\ sync_pc = "write_images"
  /\ images_file' = File(Append(images_file.bytes, images_string[sync_written + 1]))
  /\ sync_written' = IF sync_written + 1 = Len(images_string) THEN 0 ELSE sync_written + 1
  /\ sync_pc' = IF sync_written + 1 = Len(images_string) THEN "ok" ELSE "write_images"
  /\ UNCHANGED << images_string, syncFrame >>

\* images_file.write_all(images_string.as_bytes())? fails
SyncWriteImagesErr ==
  /\ sync_pc = "write_images"
  /\ sync_pc' = "err"
  /\ UNCHANGED << images_file, images_string, sync_written, syncFrame >>

\* update_images_file is called again on the file the last call left
SyncAgain ==
  /\ sync_pc \in {"ok", "err"} /\ sync_runs < MaxRuns
  /\ sync_runs' = sync_runs + 1
  /\ sync_prior' = images_file
  /\ images_string' = <<>>
  /\ sync_written' = 0
  /\ sync_pc' = "read"
  /\ UNCHANGED << images_file, notSync >>

NextSync ==
  \/ SyncReadOk
  \/ SyncReadErr
  \/ SyncParseOk
  \/ SyncParseErr
  \/ SyncOpenOk
  \/ SyncOpenErr
  \/ SyncHeaderOk
  \/ SyncHeaderErr
  \/ SyncWriteHeader
  \/ SyncWriteHeaderErr
  \/ SyncWriteImages
  \/ SyncWriteImagesErr
  \/ SyncAgain

\* the first modelled call finds a catalog, a file that does not parse, or no file
InitSync ==
  /\ images_file \in { File(t) : t \in CatalogTexts \cup {NotToml} } \cup {Absent}
  /\ images_string = <<>>
  /\ sync_prior = images_file
  /\ sync_written = 0
  /\ sync_runs = 1
  /\ sync_pc = "read"
  /\ new_catalog = EmptyMap
  /\ old_catalog = EmptyMap
  /\ MergeIdle
  /\ PullIdle
  /\ OutdateIdle
  /\ MainIdle
  /\ ListIdle
  /\ InstallIdle
  /\ TwiceIdle

SpecSync == InitSync /\ [][NextSync]_vars

(***************************************************************************)
(* Properties of update_images                                             *)
(***************************************************************************)
Returned == merge_pc = "returned"
OnlyOld == DOMAIN old_catalog \ DOMAIN new_catalog
OnlyNew == DOMAIN new_catalog \ DOMAIN old_catalog
InBoth == DOMAIN old_catalog \cap DOMAIN new_catalog
Deletes(n) == "delete" \in Range(old_catalog[n].change)
OldDirectives(n) == Range(old_catalog[n].change)

\* C1: when update_images has returned, a name that is only in the old catalog is in
\* the result, with the old entry unchanged, if and only if the old entry's change
\* list has no `delete`.
C1_OldOnlyKeptUnlessDelete ==
  Returned =>
    \A n \in OnlyOld :
      (n \in DOMAIN images /\ images[n] = old_catalog[n]) <=> ~Deletes(n)

\* C2: when update_images has returned, every name that is only in the new catalog is
\* in the result with the new entry verbatim, and the result's names are exactly the
\* names of the two inputs less the old-only names marked `delete`.
C2_NewOnlyInserted ==
  Returned =>
    /\ \A n \in OnlyNew : n \in DOMAIN images /\ images[n] = new_catalog[n]
    /\ DOMAIN images =
         (DOMAIN new_catalog \cup DOMAIN old_catalog) \ {n \in OnlyOld : Deletes(n)}

\* C3 as stated: for a name in both catalogs each field is NEW exactly when the old
\* directives hold (`update-all` and not `keep-F`) or hold `update-F`, else OLD.
C3_UpdateAlwaysForcesNew ==
  Returned =>
    \A n \in InBoth : \A f \in Fields :
      /\ n \in DOMAIN images
      /\ Field(images[n], f) =
           IF \/ ("update-all" \in OldDirectives(n) /\ Keep(f) \notin OldDirectives(n))
              \/ Update(f) \in OldDirectives(n)
           THEN Field(new_catalog[n], f)
           ELSE Field(old_catalog[n], f)

\* C3 amended: for a name in both catalogs each field is NEW exactly when the old
\* directives hold no `keep-F` and hold `update-all` or `update-F`, else OLD.
C3_FieldRule ==
  Returned =>
    \A n \in InBoth : \A f \in Fields :
      /\ n \in DOMAIN images
      /\ Field(images[n], f) =
           IF /\ Keep(f) \notin OldDirectives(n)
              /\ ("update-all" \in OldDirectives(n) \/ Update(f) \in OldDirectives(n))
           THEN Field(new_catalog[n], f)
           ELSE Field(old_catalog[n], f)

\* a merge has returned a field taken from NEW on the strength of `update-F` alone,
\* and another kept OLD although `update-F` was given, because of `keep-F`
C3_Witness ==
  /\ Returned
  /\ \E n \in InBoth : \E f, g \in Fields :
       /\ OldDirectives(n) = {Update(f), Keep(g), Update(g)}
       /\ f # g
       /\ Field(old_catalog[n], f) # Field(new_catalog[n], f)
       /\ Field(old_catalog[n], g) # Field(new_catalog[n], g)
       /\ Field(images[n], f) = Field(new_catalog[n], f)
       /\ Field(images[n], g) = Field(old_catalog[n], g)

\* C4: for a name in both catalogs, a field whose `keep-F` is among the old directives
\* has the OLD value in the result, whatever else the directives hold.
C4_KeepBeatsUpdate ==
  Returned =>
    \A n \in InBoth : \A f \in Fields :
      Keep(f) \in OldDirectives(n) =>
        n \in DOMAIN images /\ Field(images[n], f) = Field(old_catalog[n], f)

\* a merge has returned the old url of an entry with `keep-url` and `update-all`
\* whose new url differs
C4_Witness ==
  /\ Returned
  /\ \E n \in InBoth :
       /\ {"keep-url", "update-all"} \subseteq OldDirectives(n)
       /\ old_catalog[n].url # new_catalog[n].url
       /\ images[n].url = old_catalog[n].url
       /\ images[n].description = new_catalog[n].description
       /\ old_catalog[n].description # new_catalog[n].description

NoDirectives(c) == \A n \in DOMAIN c : c[n].change = <<>>

\* C5: merging a catalog without directives with itself returns that catalog.
C5_SelfMergeNoOp ==
  (Returned /\ new_catalog = old_catalog /\ NoDirectives(old_catalog)) =>
    images = old_catalog

\* a full catalog without directives and with every Option field set has been
\* merged with itself
C5_Witness ==
  /\ Returned
  /\ new_catalog = old_catalog
  /\ NoDirectives(old_catalog)
  /\ DOMAIN old_catalog = Names
  /\ \A n \in Names : old_catalog[n].description # None
  /\ images = old_catalog

(***************************************************************************)
(* Properties of Image::pull                                               *)
(***************************************************************************)
\* C6: a step that ends a pull() in an error comes from a running call, leaves the
\* image path as it was and leaves no temporary file of that call; and the image
\* path changes only in the successful rename of a completely written temporary file.
C6_FailedPullLeavesImage ==
  [][ /\ image_file' # image_file =>
           \E p \in Pulls :
             /\ pull_pc[p] = "rename" /\ pull_pc'[p] = "ok"
             /\ tmp[p] = File(body[p])
             /\ Len(body[p]) = BodyLen
             /\ image_file' = File(body[p])
      /\ \A p \in Pulls :
           pull_pc'[p] = "err" =>
             /\ pull_pc[p] \in InFlight \cup {"err"}
             /\ tmp'[p] = Absent
             /\ pull_pc[p] # "err" => image_file' = image_file
    ]_vars

\* a pull() has failed after its body arrived; the image pulled before is in place
\* and the call's temporary file is gone
C6_Witness ==
  \E p \in Pulls :
    /\ pull_pc[p] = "err"
    /\ body[p] # <<>>
    /\ prior.exists
    /\ image_file = prior
    /\ tmp[p] = Absent

\* C10: the image path holds the image that was there before while no rename has
\* happened and afterwards the complete body of the call that renamed last (so also
\* when every call has returned Ok); a temporary file exists only for a call that is
\* still copying or about to rename, or that crashed there.
C10_LastRenameWins ==
  /\ image_file = IF last_rename = 0 THEN prior ELSE File(body[last_rename])
  /\ last_rename # 0 =>
       /\ pull_pc[last_rename] = "ok"
       /\ body[last_rename] \in { Bytes(c) : c \in 1..MaxContent }
  /\ (\A p \in Pulls : pull_pc[p] = "ok") => last_rename \in Pulls
  /\ \A p \in Pulls : tmp[p].exists => pull_pc[p] \in {"copy", "rename", "crashed"}

\* two calls with different bodies have both returned Ok, a third party to the race
\* or none; the image is the body renamed last
C10_Witness ==
  /\ \E p, q \in Pulls :
       /\ p # q
       /\ pull_pc[p] = "ok" /\ pull_pc[q] = "ok"
       /\ body[p] # body[q]
       /\ last_rename = q
       /\ image_file = File(body[q])
  /\ prior.exists

(***************************************************************************)
(* Properties of Image::outdate                                            *)
(***************************************************************************)
\* the threshold of C9 in days: the image's own when set, else the catalog default
C9_Threshold == IF od_image_days # <<>> THEN od_image_days ELSE od_default_days

\* C9: outdate() returns true if and only if the file exists, its modification time
\* can be read, a threshold is set, and now - mtime is strictly greater than the
\* threshold in days; so it returns false for a missing file or an unreadable mtime.
C9_OutdateIff ==
  od_pc = "returned" =>
    ( od_result = TRUE <=>
        /\ od_file.exists
        /\ od_file.modified # <<>>
        /\ C9_Threshold # <<>>
        /\ od_now - od_file.modified[1] > C9_Threshold[1] * SecsPerDay )

\* outdate() has returned true on the image's own threshold for a file that the
\* catalog default would not yet call outdated
C9_Witness ==
  /\ od_pc = "returned"
  /\ od_result = TRUE
  /\ od_image_days # <<>>
  /\ od_default_days # <<>>
  /\ od_now - od_file.modified[1] = od_image_days[1] * SecsPerDay + 1
  /\ od_now - od_file.modified[1] <= od_default_days[1] * SecsPerDay

(***************************************************************************)
(* Properties of main                                                      *)
(***************************************************************************)
\* the subcommand resolves in mode Error and a selected VM is not running
ErrorModeCase ==
  /\ cmd \in AllOrErrorCommands
  /\ ~is_all
  /\ \E v \in selected : v \notin running

\* C7: when ssh, rsync-to, rsync-from or monitor is run without the all flag and a
\* selected VM is not running, no runtime action is ever attempted, the per-VM loop
\* is never entered, and the call ends in an error whenever it resolved at all.
C7_ErrorModeActsOnNone ==
  ErrorModeCase =>
    /\ acted = <<>>
    /\ main_pc # "loop"
    /\ main_pc = "ok" => ~CallsCreate
    /\ main_pc \in {"create", "err", "ok"} => with_pid = "Error"

\* ssh over a running and a stopped VM has failed in mode Error without an action
C7_Witness ==
  /\ ErrorModeCase
  /\ cmd = "ssh"
  /\ flag_running
  /\ \E v \in selected : v \in running
  /\ with_pid = "Error"
  /\ main_pc = "err"
  /\ acted = <<>>

\* the subcommands whose runtime action is an image pull, a start or a stop
RuntimeCommands == {"pull", "start", "stop"}
Finished == main_pc \in {"ok", "err"}
Attempted == [i \in 1..Len(acted) |-> acted[i][1]]

\* C8 as stated: once the subcommand is over, the action was attempted on every item
\* of the resolved sequence, whatever failed.
C8_AllAttempted ==
  (cmd \in RuntimeCommands /\ Finished) => Attempted = vms

\* C8 amended: the actions are attempted in the order of the resolved sequence, none
\* after a failed one; once the subcommand is over, either every item was attempted
\* or the last one attempted failed.
C8_UntilFirstFailure ==
  cmd \in RuntimeCommands =>
    /\ Len(acted) <= Len(vms)
    /\ \A i \in 1..Len(acted) : acted[i][1] = vms[i]
    /\ \A i \in 1..(Len(acted) - 1) : acted[i][2] = "ok"
    /\ Finished => \/ Len(acted) = Len(vms)
                   \/ Len(acted) >= 1 /\ acted[Len(acted)][2] = "err"
    /\ (Len(acted) >= 1 /\ acted[Len(acted)][2] = "err") => main_pc = "err"

\* stop has ended in an error at the first of several running VMs; the others were
\* not attempted
C8_Witness ==
  /\ cmd = "stop"
  /\ main_pc = "err"
  /\ Len(vms) >= 2
  /\ acted = << <<vms[1], "err">> >>

\* the reachability attempts made so far
RECURSIVE SumAttempts(_)
SumAttempts(S) ==
  IF S = {} THEN 0
  ELSE LET v == CHOOSE x \in S : TRUE IN attempts[v] + SumAttempts(S \ {v})

\* the wait-ssh loop ended in the Err of an attempt
WaitFailed == main_pc = "err" /\ SumAttempts(VMs) > 0

\* C11: the wait-ssh loop makes at most `repeat` attempts on each VM, only on VMs
\* that were started, and none on a VM after an attempt on it exited with 0; every
\* attempt that neither exited with 0 nor failed to run is followed by one sleep; and
\* start comes to an end.
C11_WaitSshBounded ==
  /\ [](\A v \in VMs : /\ attempts[v] <= repeat
                        /\ attempts[v] > 0 => v \in Range(vms) /\ cmd = "start")
  /\ [][\A v \in reached : attempts'[v] = attempts[v]]_vars
  /\ [](sleeps = SumAttempts(VMs) - Cardinality(reached) - (IF WaitFailed THEN 1 ELSE 0))
  /\ <>Finished

\* start has returned after giving up on one VM at the last of `repeat` attempts and
\* reaching another at its first
C11_Witness ==
  /\ main_pc = "ok"
  /\ repeat = MaxRepeat
  /\ \E v, w \in VMs :
       /\ attempts[v] = repeat /\ v \notin reached
       /\ attempts[w] = 1 /\ w \in reached
  /\ sleeps = repeat

(***************************************************************************)
(* Properties of images::list                                              *)
(***************************************************************************)
\* C12: when list returns Ok, the sequence it returns is strictly ascending, so free
\* of repeats, and its names are exactly the names found in any of the directories.
C12_ListSortedUnion ==
  ls_pc = "ok" =>
    /\ \A i \in 1..(Len(ls_images) - 1) : ls_images[i] < ls_images[i + 1]
    /\ Range(ls_images) = UNION { ls_dirs[i] : i \in 1..Len(ls_dirs) }

\* list has returned [1, 2, 3] for a first directory {2, 3} and a second {1, 2}
C12_Witness ==
  /\ ls_pc = "ok"
  /\ Len(ls_dirs) >= 2
  /\ ls_dirs[1] = {2, 3}
  /\ ls_dirs[2] = {1, 2}
  /\ ls_images = <<1, 2, 3>>

(***************************************************************************)
(* Properties of files::install_config                                     *)
(***************************************************************************)
\* C13 as stated: a call that found no local file and returned Ok has written the
\* embedded default, and a call that found a local file has left it unchanged.
C13_SeededFromEmbedded ==
  /\ install_pc = "ok" /\ ~install_prior.exists => config = File(AssetConfigs)
  /\ install_prior.exists => config = install_prior

\* C13: a call that found no local file and returned Ok has left the local file with
\* the content of /etc/vml/images.toml if that file exists and with the embedded
\* default's content otherwise; a call that found a local file leaves it unchanged
\* at every step, whatever the call returns.
C13_SeededOnce ==
  /\ install_pc = "ok" /\ ~install_prior.exists =>
       config = IF etc_config.exists THEN etc_config ELSE File(AssetConfigs)
  /\ install_prior.exists => config = install_prior

\* a first run seeded the file from /etc/vml with a content other than the embedded
\* default, and the second run has returned Ok with that file untouched
C13_Witness ==
  /\ install_runs = 2 /\ install_pc = "ok"
  /\ etc_config.exists /\ etc_config # File(AssetConfigs)
  /\ install_prior = etc_config
  /\ config = etc_config

(***************************************************************************)
(* Properties of the Running State Mode main sets                          *)
(***************************************************************************)
\* the subcommand has made its own builder calls: vmc.create() is next or behind
ModeSettled == main_pc \notin {"main", "specified"}

\* C14: once ssh, rsync-to, rsync-from or monitor has made its builder calls, so when
\* the selection is resolved and ever after, the mode is Filter if the all flag is set
\* and Error otherwise, whatever the builder held before and whether or not `running`
\* was given; for start the mode is Without.
C14_ModeAtResolution ==
  ModeSettled =>
    /\ cmd \in {"ssh", "rsync-to", "rsync-from", "monitor"} =>
         with_pid = IF is_all THEN "Filter" ELSE "Error"
    /\ cmd = "start" => with_pid = "Without"

\* monitor --running without the all flag has resolved its VMs in mode Error
C14_Witness ==
  /\ cmd = "monitor"
  /\ flag_running /\ ~is_all
  /\ main_pc = "loop" /\ Len(vms) > 0
  /\ with_pid = "Error"

(***************************************************************************)
(* Properties of update_images_file                                        *)
(***************************************************************************)
\* C15: when update_images_file has returned an error, the local catalog file holds
\* exactly the content it held before the call.
C15_FailedSyncKeepsFile ==
  sync_pc = "err" => images_file = sync_prior

(***************************************************************************)
(* Properties of a repeated update_images                                  *)
(***************************************************************************)
UpgradedTwice == merge_pc = "returned" /\ upgrades = 2

\* no entry of catalog c carries `update-all` or `update-<field>` for a field other
\* than change
NoFieldUpdates(c) ==
  \A n \in DOMAIN c :
    /\ "update-all" \notin Range(c[n].change)
    /\ \A f \in Fields \ {"change"} : Update(f) \notin Range(c[n].change)

\* C16 as stated: for every embedded and every local catalog, the second upgrade
\* returns what the first returned.
C16_UpgradeTwiceIsOnce ==
  UpgradedTwice => images = first_images

\* C16: when no embedded entry carries `update-all` or an `update-<field>` directive
\* for a field other than change, the second upgrade returns what the first returned,
\* whatever directives the local catalog carries.
C16_UpgradeTwiceIsOnceNoFieldUpdates ==
  (UpgradedTwice /\ NoFieldUpdates(new_catalog)) => images = first_images

\* an embedded catalog whose entries carry no field update has twice been merged into
\* a local catalog of the older version where one entry takes the new change list and
\* another everything but the url; the first upgrade changed the catalog, the second
\* did not
C16_Witness ==
  /\ UpgradedTwice
  /\ NoFieldUpdates(new_catalog)
  /\ \E n, m \in DOMAIN first_old \cap DOMAIN new_catalog :
       /\ first_old[n] = DeserializeImage(0, <<"update-change">>)
       /\ new_catalog[n].change = <<"update-change">>
       /\ first_old[m] = DeserializeImage(0, <<"update-all", "keep-url">>)
  /\ first_images # first_old
  /\ first_images # new_catalog
  /\ images = first_images

====
